---- MODULE Spec2Model ----
(***************************************************************************)
(* Model of the two YADA converters:                                       *)
(*   src/yada/add_composite_food.py  (add_composite_food_from_json,        *)
(*                                    add_single_composite_food)           *)
(*   src/yada/convert_foods.py       (convert_json_to_basic_foods,         *)
(*                                    process_food_item)                   *)
(*                                                                         *)
(* Python values are tagged records [t |-> type, payload], the payload in  *)
(* a field named after the type (s, n, e, l, d, b).  A Python str is a     *)
(* sequence of one-character strings, so that lower(), join, repr and the  *)
(* f-string templates are computed character by character.  A dict is the  *)
(* sequence of its items in insertion order.  A float is held as a whole   *)
(* number of thousandths: repr() of such a value is its shortest decimal,  *)
(* and the '.2f' format is determined except at a rounding tie that is     *)
(* not exact in binary.                                                    *)
(*                                                                         *)
(* The characters of a str are those of Alphabet (printable ASCII but the   *)
(* grave accent, which a string of this language cannot hold; tab,         *)
(* newline, carriage return; Latin-1 and Greek letters).  What Python does *)
(* with any other character, with a float that is not a number of          *)
(* thousandths, or with a JSON exponent, is not modelled: the value        *)
(* Unsupported has no meaning and its evaluation stops the model.          *)
(***************************************************************************)
EXTENDS Integers, Sequences, FiniteSets, TLC

VARIABLES
    pc,             \* "idle" | "comp_loop" | "conv_loop" | "done"
    calls,          \* number of converter calls started so far
    output_path,    \* environment: what open(path, "a") finds at the output path
    fn,             \* which entry point the current/last call is
    arg,            \* composite: json_data; basic: the content of json_file
    items,          \* the list being iterated (json_data / food_data)
    idx,            \* number of list elements already consumed by the loop
    success_count,  \* add_composite_food_from_json's counter
    steps,          \* per processed element: [ret, out] of the helper call
    buffer,         \* basic converter: text written to the open file object
    outcome,        \* what the caller observes: [kind, v] return / raise
    console,        \* the messages printed during the call (message kinds)
    comp_file,      \* content of the composite-food output file
    basic_file,     \* content of the basic-food output file
    file_before,    \* content of the call's output file when the call began
    prev            \* the previous completed call: [fn, arg, out, clean]

vars == <<pc, calls, output_path, fn, arg, items, idx, success_count, steps,
          buffer, outcome, console, comp_file, basic_file, file_before, prev>>

(***************************************************************************)
(* Bounds                                                                  *)
(***************************************************************************)
MaxCalls == 2

(***************************************************************************)
(* Characters.  Each block lists consecutive code points from `first`.     *)
(***************************************************************************)
Unsupported == CHOOSE x \in {} : TRUE

Range(f) == {f[i] : i \in DOMAIN f}
Index(seq, c) == CHOOSE i \in DOMAIN seq : seq[i] = c

\* U+0020 .. U+005F
AsciiUpper ==
    <<" ","!","\"","#","$","%","&","'","(",")","*","+",",","-",".","/","0",
      "1","2","3","4","5","6","7","8","9",":",";","<","=",">","?","@","A",
      "B","C","D","E","F","G","H","I","J","K","L","M","N","O","P","Q","R",
      "S","T","U","V","W","X","Y","Z","[","\\","]","^","_">>
\* U+0061 .. U+007E
AsciiLower ==
    <<"a","b","c","d","e","f","g","h","i","j","k","l","m","n","o","p","q",
      "r","s","t","u","v","w","x","y","z","{","|","}","~">>
\* U+00A1 .. U+00AC
LatinSigns ==
    <<"¡","¢","£","¤","¥","¦","§","¨","©","ª","«","¬">>
\* U+00AE .. U+00FF
Latin ==
    <<"®","¯","°","±","²","³","´","µ","¶","·","¸","¹","º","»","¼","½","¾",
      "¿","À","Á","Â","Ã","Ä","Å","Æ","Ç","È","É","Ê","Ë","Ì","Í","Î","Ï",
      "Ð","Ñ","Ò","Ó","Ô","Õ","Ö","×","Ø","Ù","Ú","Û","Ü","Ý","Þ","ß","à",
      "á","â","ã","ä","å","æ","ç","è","é","ê","ë","ì","í","î","ï","ð","ñ",
      "ò","ó","ô","õ","ö","÷","ø","ù","ú","û","ü","ý","þ","ÿ">>
\* U+0391 .. U+03A1, U+03A3 .. U+03A9, U+03B1 .. U+03C9
GreekUpperAlphaRho ==
    <<"Α","Β","Γ","Δ","Ε","Ζ","Η","Θ","Ι","Κ","Λ","Μ","Ν","Ξ","Ο","Π","Ρ">>
GreekUpperSigmaOmega ==
    <<"Σ","Τ","Υ","Φ","Χ","Ψ","Ω">>
GreekLower ==
    <<"α","β","γ","δ","ε","ζ","η","θ","ι","κ","λ","μ","ν","ξ","ο","π","ρ",
      "ς","σ","τ","υ","φ","χ","ψ","ω">>

Blocks ==
    << [first |-> 9, chars |-> <<"\t", "\n">>],
       [first |-> 13, chars |-> <<"\r">>],
       [first |-> 32, chars |-> AsciiUpper],
       [first |-> 97, chars |-> AsciiLower],
       [first |-> 161, chars |-> LatinSigns],
       [first |-> 174, chars |-> Latin],
       [first |-> 913, chars |-> GreekUpperAlphaRho],
       [first |-> 931, chars |-> GreekUpperSigmaOmega],
       [first |-> 945, chars |-> GreekLower] >>

Alphabet == UNION {Range(Blocks[b].chars) : b \in DOMAIN Blocks}
AsciiChars == Range(AsciiUpper) \cup Range(AsciiLower)

\* c is the character at `at` in block b
At(b, at, c) == at \in DOMAIN Blocks[b].chars /\ Blocks[b].chars[at] = c

\* ord(c)
Ord(c) ==
    IF c \in Alphabet
    THEN LET b == CHOOSE b \in DOMAIN Blocks : \E at \in DOMAIN Blocks[b].chars : At(b, at, c)
         IN  Blocks[b].first + Index(Blocks[b].chars, c) - 1
    ELSE Unsupported

\* chr(n)
Chr(n) ==
    IF \E b \in DOMAIN Blocks : n - Blocks[b].first + 1 \in DOMAIN Blocks[b].chars
    THEN LET b == CHOOSE b \in DOMAIN Blocks :
                      n - Blocks[b].first + 1 \in DOMAIN Blocks[b].chars
         IN  Blocks[b].chars[n - Blocks[b].first + 1]
    ELSE Unsupported

\* the characters of Alphabet that str.lower() changes, and what it makes
\* of each (the capital sigma apart, see Lower)
UpperChars ==
    <<"A","B","C","D","E","F","G","H","I","J","K","L","M","N","O","P","Q",
      "R","S","T","U","V","W","X","Y","Z","À","Á","Â","Ã","Ä","Å","Æ","Ç",
      "È","É","Ê","Ë","Ì","Í","Î","Ï","Ð","Ñ","Ò","Ó","Ô","Õ","Ö","Ø","Ù",
      "Ú","Û","Ü","Ý","Þ","Α","Β","Γ","Δ","Ε","Ζ","Η","Θ","Ι","Κ","Λ","Μ",
      "Ν","Ξ","Ο","Π","Ρ","Τ","Υ","Φ","Χ","Ψ","Ω">>
LowerChars ==
    <<"a","b","c","d","e","f","g","h","i","j","k","l","m","n","o","p","q",
      "r","s","t","u","v","w","x","y","z","à","á","â","ã","ä","å","æ","ç",
      "è","é","ê","ë","ì","í","î","ï","ð","ñ","ò","ó","ô","õ","ö","ø","ù",
      "ú","û","ü","ý","þ","α","β","γ","δ","ε","ζ","η","θ","ι","κ","λ","μ",
      "ν","ξ","ο","π","ρ","τ","υ","φ","χ","ψ","ω">>

\* the characters with the Unicode property Cased, and those with the
\* property Case_Ignorable
CasedChars ==
    Range(<<"A","B","C","D","E","F","G","H","I","J","K","L","M","N","O","P",
            "Q","R","S","T","U","V","W","X","Y","Z","a","b","c","d","e","f",
            "g","h","i","j","k","l","m","n","o","p","q","r","s","t","u","v",
            "w","x","y","z","ª","µ","º","À","Á","Â","Ã","Ä","Å","Æ","Ç","È",
            "É","Ê","Ë","Ì","Í","Î","Ï","Ð","Ñ","Ò","Ó","Ô","Õ","Ö","Ø","Ù",
            "Ú","Û","Ü","Ý","Þ","ß","à","á","â","ã","ä","å","æ","ç","è","é",
            "ê","ë","ì","í","î","ï","ð","ñ","ò","ó","ô","õ","ö","ø","ù","ú",
            "û","ü","ý","þ","ÿ","Α","Β","Γ","Δ","Ε","Ζ","Η","Θ","Ι","Κ","Λ",
            "Μ","Ν","Ξ","Ο","Π","Ρ","Σ","Τ","Υ","Φ","Χ","Ψ","Ω","α","β","γ",
            "δ","ε","ζ","η","θ","ι","κ","λ","μ","ν","ξ","ο","π","ρ","ς","σ",
            "τ","υ","φ","χ","ψ","ω">>)
CaseIgnorableChars == {"'", ".", ":", "^", "¨", "¯", "´", "·", "¸"}

LowerChar(c) ==
    IF \E i \in DOMAIN UpperChars : UpperChars[i] = c
    THEN LowerChars[Index(UpperChars, c)]
    ELSE IF c \in Alphabet THEN c
    ELSE Unsupported

\* is the nearest character at or before position i that is not
\* case-ignorable a cased one
RECURSIVE CasedBefore(_, _)
CasedBefore(s, i) ==
    IF i < 1 THEN FALSE
    ELSE IF s[i] \in CaseIgnorableChars THEN CasedBefore(s, i - 1)
    ELSE s[i] \in CasedChars

RECURSIVE CasedAfter(_, _)
CasedAfter(s, i) ==
    IF i > Len(s) THEN FALSE
    ELSE IF s[i] \in CaseIgnorableChars THEN CasedAfter(s, i + 1)
    ELSE s[i] \in CasedChars

\* str.lower(): character by character, a capital sigma that ends a word
\* becoming the final sigma
Lower(s) ==
    [i \in DOMAIN s |->
        IF s[i] = "Σ"
        THEN IF CasedBefore(s, i - 1) /\ ~CasedAfter(s, i + 1) THEN "ς" ELSE "σ"
        ELSE LowerChar(s[i])]

(***************************************************************************)
(* Python values                                                           *)
(***************************************************************************)
PStr(s) == [t |-> "str", s |-> s]
PInt(n) == [t |-> "int", n |-> n]
PFloat(e) == [t |-> "float", e |-> e]
PList(l) == [t |-> "list", l |-> l]
PDict(d) == [t |-> "dict", d |-> d]
PNone == [t |-> "None"]
PBool(b) == [t |-> "bool", b |-> b]

\* bool(x)
Truthy(x) ==
    CASE x.t = "str" -> x.s # <<>>
      [] x.t = "int" -> x.n # 0
      [] x.t = "float" -> x.e # 0
      [] x.t = "list" -> x.l # <<>>
      [] x.t = "dict" -> x.d # <<>>
      [] x.t = "bool" -> x.b
      [] OTHER -> FALSE

\* the keys the converters look up, in the order the records below list them
KeyOrder == <<"id", "name", "keywords", "calories_per_serving", "components", "servings">>

KeyChars(k) ==
    CASE k = "id" -> <<"i","d">>
      [] k = "name" -> <<"n","a","m","e">>
      [] k = "keywords" -> <<"k","e","y","w","o","r","d","s">>
      [] k = "calories_per_serving" -> <<"c","a","l","o","r","i","e","s","_","p","e","r","_","s","e","r","v","i","n","g">>
      [] k = "components" -> <<"c","o","m","p","o","n","e","n","t","s">>
      [] k = "servings" -> <<"s","e","r","v","i","n","g","s">>

\* a dict literal whose keys are among KeyOrder
Dict(fields) ==
    LET ks == SelectSeq(KeyOrder, LAMBDA k : k \in DOMAIN fields)
    IN  PDict([i \in DOMAIN ks |-> [k |-> KeyChars(ks[i]), v |-> fields[ks[i]]]])

\* key in d
HasKey(d, chars) == \E i \in DOMAIN d.d : d.d[i].k = chars

\* dict.get(key, default)
Get(d, key, default) ==
    IF HasKey(d, KeyChars(key))
    THEN d.d[CHOOSE i \in DOMAIN d.d : d.d[i].k = KeyChars(key)].v
    ELSE default

\* d[key] = value: a new key goes last, a known key keeps its place
Put(d, chars, value) ==
    IF \E i \in DOMAIN d : d[i].k = chars
    THEN [i \in DOMAIN d |-> IF d[i].k = chars THEN [k |-> chars, v |-> value] ELSE d[i]]
    ELSE Append(d, [k |-> chars, v |-> value])

RECURSIVE Concat(_)
Concat(ss) == IF ss = <<>> THEN <<>> ELSE Head(ss) \o Concat(Tail(ss))

\* sep.join(parts)
RECURSIVE Join(_, _)
Join(sep, parts) ==
    IF parts = <<>> THEN <<>>
    ELSE IF Len(parts) = 1 THEN parts[1]
    ELSE parts[1] \o sep \o Join(sep, Tail(parts))

Digits == <<"0","1","2","3","4","5","6","7","8","9">>

RECURSIVE NatToStr(_)
NatToStr(n) ==
    IF n < 10 THEN <<Digits[n + 1]>>
    ELSE NatToStr(n \div 10) \o <<Digits[(n % 10) + 1]>>

Abs(n) == IF n < 0 THEN -n ELSE n
Sign(n) == IF n < 0 THEN <<"-">> ELSE <<>>

\* str(int)
IntToStr(n) == Sign(n) \o NatToStr(Abs(n))

RECURSIVE StripZeros(_)
StripZeros(s) ==
    IF Len(s) > 1 /\ s[Len(s)] = "0" THEN StripZeros(SubSeq(s, 1, Len(s) - 1))
    ELSE s

Pad(n, width) ==
    LET s == NatToStr(n)
    IN  [i \in 1..(width - Len(s)) |-> "0"] \o s

\* repr(float) of e/1000
FloatToStr(e) ==
    Sign(e) \o NatToStr(Abs(e) \div 1000) \o <<".">>
            \o StripZeros(Pad(Abs(e) % 1000, 3))

\* repr(str): single quotes, unless the text has a single quote and no
\* double quote
ReprStr(s) ==
    LET q == IF "'" \in Range(s) /\ "\"" \notin Range(s) THEN "\"" ELSE "'"
        ReprChar(c) ==
            CASE c = "\\" -> <<"\\", "\\">>
              [] c = "\n" -> <<"\\", "n">>
              [] c = "\t" -> <<"\\", "t">>
              [] c = "\r" -> <<"\\", "r">>
              [] c = q -> <<"\\", c>>
              [] OTHER -> IF c \in Alphabet THEN <<c>> ELSE Unsupported
    IN  <<q>> \o Concat([i \in DOMAIN s |-> ReprChar(s[i])]) \o <<q>>

\* repr(x)
RECURSIVE Repr(_)
Repr(x) ==
    CASE x.t = "str" -> ReprStr(x.s)
      [] x.t = "int" -> IntToStr(x.n)
      [] x.t = "float" -> FloatToStr(x.e)
      [] x.t = "bool" -> IF x.b THEN <<"T","r","u","e">> ELSE <<"F","a","l","s","e">>
      [] x.t = "list" ->
            <<"[">> \o Join(<<",", " ">>, [i \in DOMAIN x.l |-> Repr(x.l[i])]) \o <<"]">>
      [] x.t = "dict" ->
            <<"{">> \o Join(<<",", " ">>,
                            [i \in DOMAIN x.d |->
                                ReprStr(x.d[i].k) \o <<":", " ">> \o Repr(x.d[i].v)])
                    \o <<"}">>
      [] x.t = "None" -> <<"N","o","n","e">>

\* format(x, "") as used by an f-string replacement field: str(x)
Str(x) == IF x.t = "str" THEN x.s ELSE Repr(x)

\* hundredths of |e/1000| as '.2f' rounds the float: to the nearest, and a
\* tie that the float holds exactly to the even one
Hundredths(e) ==
    LET a == Abs(e)
        q == a \div 10
        r == a % 10
    IN  IF r < 5 THEN q
        ELSE IF r > 5 THEN q + 1
        ELSE IF a % 125 # 0 THEN Unsupported
        ELSE IF q % 2 = 1 THEN q + 1 ELSE q

\* format(x, ".2f") for an int or a float
Format2f(x) ==
    IF x.t = "int"
    THEN IntToStr(x.n) \o <<".", "0", "0">>
    ELSE Sign(x.e) \o NatToStr(Hundredths(x.e) \div 100) \o <<".">>
                   \o Pad(Hundredths(x.e) % 100, 2)

(***************************************************************************)
(* JSON text: json.dumps (which makes the texts given to the converters)   *)
(* and json.loads / json.load                                              *)
(***************************************************************************)
HexDigits == <<"0","1","2","3","4","5","6","7","8","9","a","b","c","d","e","f">>
HexUpper == <<"0","1","2","3","4","5","6","7","8","9","A","B","C","D","E","F">>

\* '%04x' % n
Hex4(n) ==
    << HexDigits[((n \div 4096) % 16) + 1], HexDigits[((n \div 256) % 16) + 1],
       HexDigits[((n \div 16) % 16) + 1], HexDigits[(n % 16) + 1] >>

\* json.dumps(str), ensure_ascii
Quote(s) ==
    LET JsonChar(c) ==
            CASE c = "\"" -> <<"\\", "\"">>
              [] c = "\\" -> <<"\\", "\\">>
              [] c = "\n" -> <<"\\", "n">>
              [] c = "\t" -> <<"\\", "t">>
              [] c = "\r" -> <<"\\", "r">>
              [] OTHER -> IF c \in AsciiChars THEN <<c>>
                          ELSE <<"\\", "u">> \o Hex4(Ord(c))
    IN  <<"\"">> \o Concat([i \in DOMAIN s |-> JsonChar(s[i])]) \o <<"\"">>

\* json.dumps(x)
RECURSIVE Dumps(_)
Dumps(x) ==
    CASE x.t = "str" -> Quote(x.s)
      [] x.t = "int" -> IntToStr(x.n)
      [] x.t = "float" -> FloatToStr(x.e)
      [] x.t = "bool" -> IF x.b THEN <<"t","r","u","e">> ELSE <<"f","a","l","s","e">>
      [] x.t = "list" ->
            <<"[">> \o Join(<<",", " ">>, [i \in DOMAIN x.l |-> Dumps(x.l[i])]) \o <<"]">>
      [] x.t = "dict" ->
            <<"{">> \o Join(<<",", " ">>,
                            [i \in DOMAIN x.d |->
                                Quote(x.d[i].k) \o <<":", " ">> \o Dumps(x.d[i].v)])
                    \o <<"}">>
      [] x.t = "None" -> <<"n","u","l","l">>

IsDigit(c) == \E i \in DOMAIN Digits : Digits[i] = c
DigitValue(c) == Index(Digits, c) - 1

RECURSIVE StrToNat(_)
StrToNat(s) ==
    IF s = <<>> THEN 0
    ELSE 10 * StrToNat(SubSeq(s, 1, Len(s) - 1)) + DigitValue(s[Len(s)])

IsHex(c) == c \in Range(HexDigits) \/ c \in Range(HexUpper)
HexValue(c) == IF c \in Range(HexDigits) THEN Index(HexDigits, c) - 1
               ELSE Index(HexUpper, c) - 1

\* the result of scanning one token: the value read and the position after it
Ok(v, next) == [ok |-> TRUE, v |-> v, next |-> next]
Fail == [ok |-> FALSE, v |-> PNone, next |-> 0]

Whitespace == {" ", "\t", "\n", "\r"}

\* the first position from i on that holds no whitespace
RECURSIVE SkipWs(_, _)
SkipWs(s, i) == IF i <= Len(s) /\ s[i] \in Whitespace THEN SkipWs(s, i + 1) ELSE i

\* the first position from i on that holds no digit
RECURSIVE DigitsEnd(_, _)
DigitsEnd(s, i) == IF i <= Len(s) /\ IsDigit(s[i]) THEN DigitsEnd(s, i + 1) ELSE i

StartsWith(s, i, word) ==
    i + Len(word) - 1 <= Len(s) /\ SubSeq(s, i, i + Len(word) - 1) = word

\* what a backslash followed by e stands for in a string literal
Escaped(e) ==
    CASE e = "n" -> "\n"
      [] e = "t" -> "\t"
      [] e = "r" -> "\r"
      [] e \in {"\"", "\\", "/"} -> e
      [] e \in {"b", "f"} -> Unsupported

RECURSIVE HexToNat(_)
HexToNat(s) ==
    IF s = <<>> THEN 0
    ELSE 16 * HexToNat(SubSeq(s, 1, Len(s) - 1)) + HexValue(s[Len(s)])

\* one character of a string literal: the character the text at i stands
\* for and the number of positions it takes
Char(c, n) == [ok |-> TRUE, c |-> c, n |-> n]
NoChar == [ok |-> FALSE, c |-> "", n |-> 0]

ScanChar(s, i) ==
    IF s[i] \in {"\n", "\t", "\r"} THEN NoChar
    ELSE IF s[i] # "\\"
      THEN IF s[i] \in Alphabet THEN Char(s[i], 1) ELSE Unsupported
    ELSE IF i + 1 > Len(s) THEN NoChar
    ELSE IF s[i + 1] \in {"\"", "\\", "/", "n", "t", "r", "b", "f"}
      THEN Char(Escaped(s[i + 1]), 2)
    ELSE IF /\ s[i + 1] = "u"
            /\ i + 5 <= Len(s)
            /\ \A j \in (i + 2)..(i + 5) : IsHex(s[j])
      THEN Char(Chr(HexToNat(SubSeq(s, i + 2, i + 5))), 6)
    ELSE NoChar

\* the characters of a string literal whose opening quote is before i
RECURSIVE ScanString(_, _, _), Scanned(_, _, _, _)
ScanString(s, i, acc) ==
    IF i > Len(s) THEN Fail
    ELSE IF s[i] = "\"" THEN Ok(acc, i + 1)
    ELSE Scanned(s, i, acc, ScanChar(s, i))

Scanned(s, i, acc, char) ==
    IF char.ok THEN ScanString(s, i + char.n, Append(acc, char.c)) ELSE Fail

\* a number that starts at i: -?(0|[1-9]\d*)(\.\d+)?([eE][-+]?\d+)?
\* j is where its digits start, and its integer part and its fraction
\* end before intEnd and fracEnd
HasExponent(s, at, digit) ==
    /\ at <= Len(s) /\ s[at] \in {"e", "E"}
    /\ digit <= Len(s) /\ IsDigit(s[digit])

Thousandths(whole, frac) ==
    1000 * whole + StrToNat([k \in 1..3 |-> IF k <= Len(frac) THEN frac[k] ELSE "0"])

Number(s, neg, whole, frac, intEnd, fracEnd) ==
    IF HasExponent(s, fracEnd,
                   IF fracEnd + 1 <= Len(s) /\ s[fracEnd + 1] \in {"-", "+"}
                   THEN fracEnd + 2 ELSE fracEnd + 1)
      THEN Unsupported
    ELSE IF fracEnd = intEnd THEN Ok(PInt(IF neg THEN -whole ELSE whole), intEnd)
    ELSE IF \E k \in DOMAIN frac : k > 3 /\ frac[k] # "0" THEN Unsupported
    ELSE IF neg /\ Thousandths(whole, frac) = 0 THEN Unsupported
    ELSE Ok(PFloat(IF neg THEN -Thousandths(whole, frac) ELSE Thousandths(whole, frac)),
            fracEnd)

Fraction(s, neg, j, intEnd, fracEnd) ==
    Number(s, neg, StrToNat(SubSeq(s, j, intEnd - 1)),
           SubSeq(s, intEnd + 1, fracEnd - 1), intEnd, fracEnd)

Integer(s, neg, j, intEnd) ==
    Fraction(s, neg, j, intEnd,
             IF intEnd + 1 <= Len(s) /\ s[intEnd] = "." /\ IsDigit(s[intEnd + 1])
             THEN DigitsEnd(s, intEnd + 1) ELSE intEnd)

Unsigned(s, neg, j) ==
    IF j > Len(s) \/ ~IsDigit(s[j]) THEN Fail
    ELSE Integer(s, neg, j, IF s[j] = "0" THEN j + 1 ELSE DigitsEnd(s, j))

ScanNumber(s, i) == Unsigned(s, s[i] = "-", IF s[i] = "-" THEN i + 1 ELSE i)

\* The reader of values keeps the containers it is inside of on a stack;
\* it expects a value or a key at i, or has read the value v that ends
\* before i.
Conf(mode, i, stack, v) == [mode |-> mode, i |-> i, stack |-> stack, v |-> v]
Failed == Conf("fail", 0, <<>>, PNone)
Expect(mode, i, stack) == Conf(mode, i, stack, PNone)
Read(v, i, stack) == Conf("read", i, stack, v)

\* an open container: the elements or the items read so far, and the key
\* whose value is being read
Frame(t, l, k) == [t |-> t, l |-> l, k |-> k]

Token(stack, r) == IF r.ok THEN Read(r.v, r.next, stack) ELSE Failed
StringToken(stack, r) == IF r.ok THEN Read(PStr(r.v), r.next, stack) ELSE Failed

OpenObject(s, j, stack) ==
    IF j <= Len(s) /\ s[j] = "}" THEN Read(PDict(<<>>), j + 1, stack)
    ELSE Expect("key", j, Append(stack, Frame("dict", <<>>, <<>>)))

OpenArray(s, j, stack) ==
    IF j <= Len(s) /\ s[j] = "]" THEN Read(PList(<<>>), j + 1, stack)
    ELSE Expect("value", j, Append(stack, Frame("list", <<>>, <<>>)))

\* a value starts at i
StepValue(s, i, stack) ==
    IF i > Len(s) THEN Failed
    ELSE IF s[i] = "\"" THEN StringToken(stack, ScanString(s, i + 1, <<>>))
    ELSE IF s[i] = "{" THEN OpenObject(s, SkipWs(s, i + 1), stack)
    ELSE IF s[i] = "[" THEN OpenArray(s, SkipWs(s, i + 1), stack)
    ELSE IF StartsWith(s, i, <<"n","u","l","l">>) THEN Read(PNone, i + 4, stack)
    ELSE IF StartsWith(s, i, <<"t","r","u","e">>) THEN Read(PBool(TRUE), i + 4, stack)
    ELSE IF StartsWith(s, i, <<"f","a","l","s","e">>) THEN Read(PBool(FALSE), i + 5, stack)
    ELSE IF \/ StartsWith(s, i, <<"N","a","N">>)
            \/ StartsWith(s, i, <<"I","n","f","i","n","i","t","y">>)
            \/ StartsWith(s, i, <<"-","I","n","f","i","n","i","t","y">>) THEN Unsupported
    ELSE IF s[i] = "-" \/ IsDigit(s[i]) THEN Token(stack, ScanNumber(s, i))
    ELSE Failed

Top(stack) == stack[Len(stack)]
Pop(stack) == SubSeq(stack, 1, Len(stack) - 1)

KeyToken(s, stack, key, colon) ==
    IF colon > Len(s) \/ s[colon] # ":" THEN Failed
    ELSE Expect("value", SkipWs(s, colon + 1),
                Append(Pop(stack), Frame("dict", Top(stack).l, key)))

\* a key starts at i
StepKey(s, i, stack, key) ==
    IF i > Len(s) \/ s[i] # "\"" THEN Failed
    ELSE IF ~key.ok THEN Failed
    ELSE KeyToken(s, stack, key.v, SkipWs(s, key.next))

\* the value v joins the container it is in
Add(frame, v) ==
    IF frame.t = "list" THEN Frame("list", Append(frame.l, v), <<>>)
    ELSE Frame("dict", Put(frame.l, frame.k, v), <<>>)

\* after the value: the container ends at j, or goes on after a comma
Added(s, j, stack, frame) ==
    IF j > Len(s) THEN Failed
    ELSE IF frame.t = "list" /\ s[j] = "]" THEN Read(PList(frame.l), j + 1, stack)
    ELSE IF frame.t = "dict" /\ s[j] = "}" THEN Read(PDict(frame.l), j + 1, stack)
    ELSE IF s[j] = ","
      THEN Expect(IF frame.t = "list" THEN "value" ELSE "key", SkipWs(s, j + 1),
                  Append(stack, frame))
    ELSE Failed

\* the value v ends before i
StepRead(s, i, stack, v) ==
    IF stack = <<>> THEN Conf("done", i, stack, v)
    ELSE Added(s, SkipWs(s, i), Pop(stack), Add(Top(stack), v))

Step(s, c) ==
    CASE c.mode = "value" -> StepValue(s, c.i, c.stack)
      [] c.mode = "key" ->
            StepKey(s, c.i, c.stack,
                    IF c.i + 1 <= Len(s) THEN ScanString(s, c.i + 1, <<>>) ELSE Fail)
      [] c.mode = "read" -> StepRead(s, c.i, c.stack, c.v)

RECURSIVE Run(_, _)
Run(s, c) == IF c.mode \in {"done", "fail"} THEN c ELSE Run(s, Step(s, c))

\* the document is one value, whitespace around it
Document(text, c) ==
    IF c.mode = "done" /\ SkipWs(text, c.i) > Len(text)
    THEN [ok |-> TRUE, v |-> c.v]
    ELSE [ok |-> FALSE, v |-> PNone]

\* json.loads(text): [ok, v]; ok = FALSE is JSONDecodeError
Parse(text) == Document(text, Run(text, Expect("value", SkipWs(text, 1), <<>>)))

(***************************************************************************)
(* The records the converters are run on                                   *)
(***************************************************************************)
Component(name, servings) == Dict([name |-> PStr(name), servings |-> servings])

Composite(id, name, components) ==
    Dict([id |-> PStr(id), name |-> PStr(name), components |-> PList(components)])

\* sample_data, lines 71-164
SampleData ==
    << Composite(<<"c","o","m","p","o","s","i","t","e","0","0","1">>, <<"P","e","a","n","u","t"," ","B","u","t","t","e","r"," ","S","a","n","d","w","i","c","h">>,
                 << Component(<<"W","h","i","t","e"," ","B","r","e","a","d"," ","S","l","i","c","e">>, PInt(2)),
                    Component(<<"P","e","a","n","u","t"," ","B","u","t","t","e","r">>, PInt(1)) >>),
       Composite(<<"c","o","m","p","o","s","i","t","e","0","0","2">>, <<"P","B","&","J"," ","S","a","n","d","w","i","c","h">>,
                 << Component(<<"W","h","i","t","e"," ","B","r","e","a","d"," ","S","l","i","c","e">>, PInt(2)),
                    Component(<<"P","e","a","n","u","t"," ","B","u","t","t","e","r">>, PInt(1)),
                    Component(<<"J","a","m">>, PInt(1)) >>),
       Composite(<<"c","o","m","p","o","s","i","t","e","0","0","3">>, <<"P","a","n","e","e","r"," ","W","r","a","p">>,
                 << Component(<<"R","o","t","i">>, PInt(1)),
                    Component(<<"P","a","n","e","e","r">>, PInt(1)),
                    Component(<<"O","n","i","o","n">>, PFloat(500)),
                    Component(<<"T","o","m","a","t","o">>, PFloat(500)) >>),
       Composite(<<"c","o","m","p","o","s","i","t","e","0","0","4">>, <<"D","a","l"," ","C","h","a","w","a","l">>,
                 << Component(<<"D","a","l">>, PInt(1)),
                    Component(<<"C","o","o","k","e","d"," ","R","i","c","e">>, PInt(1)) >>),
       Composite(<<"c","o","m","p","o","s","i","t","e","0","0","5">>, <<"N","a","a","n"," ","P","a","n","e","e","r">>,
                 << Component(<<"N","a","a","n">>, PInt(1)),
                    Component(<<"P","a","n","e","e","r">>, PInt(1)),
                    Component(<<"O","n","i","o","n">>, PFloat(500)) >>),
       Composite(<<"c","o","m","p","o","s","i","t","e","0","0","6">>, <<"V","e","g"," ","S","a","n","d","w","i","c","h">>,
                 << Component(<<"W","h","o","l","e"," ","W","h","e","a","t"," ","B","r","e","a","d"," ","S","l","i","c","e">>, PInt(2)),
                    Component(<<"B","u","t","t","e","r">>, PFloat(500)),
                    Component(<<"T","o","m","a","t","o">>, PFloat(500)),
                    Component(<<"C","u","c","u","m","b","e","r">>, PFloat(500)),
                    Component(<<"O","n","i","o","n">>, PFloat(500)) >>),
       Composite(<<"c","o","m","p","o","s","i","t","e","0","0","7">>, <<"E","g","g"," ","S","a","l","a","d">>,
                 << Component(<<"B","o","i","l","e","d"," ","E","g","g">>, PInt(1)),
                    Component(<<"C","u","c","u","m","b","e","r">>, PFloat(500)),
                    Component(<<"O","n","i","o","n">>, PFloat(500)),
                    Component(<<"M","a","y","o","n","n","a","i","s","e">>, PInt(1)) >>),
       Composite(<<"c","o","m","p","o","s","i","t","e","0","0","8">>, <<"C","h","a","n","a"," ","R","o","t","i">>,
                 << Component(<<"R","o","t","i">>, PInt(1)),
                    Component(<<"C","o","o","k","e","d"," ","C","h","i","c","k","p","e","a","s">>, PInt(1)) >>),
       Composite(<<"c","o","m","p","o","s","i","t","e","0","0","9">>, <<"G","h","e","e"," ","R","o","t","i">>,
                 << Component(<<"R","o","t","i">>, PInt(1)),
                    Component(<<"G","h","e","e">>, PInt(1)) >>),
       Composite(<<"c","o","m","p","o","s","i","t","e","0","1","0">>, <<"P","a","n","e","e","r"," ","R","i","c","e"," ","B","o","w","l">>,
                 << Component(<<"C","o","o","k","e","d"," ","R","i","c","e">>, PInt(1)),
                    Component(<<"P","a","n","e","e","r">>, PInt(1)),
                    Component(<<"T","o","m","a","t","o">>, PFloat(500)),
                    Component(<<"O","n","i","o","n">>, PFloat(500)) >>) >>

\* sample_data[8], "Ghee Roti"
GheeRoti == SampleData[9]

\* one kept component (fractional servings) and one with zero servings
Small ==
    Dict([name |-> PStr(<<"A","b">>),
          components |-> PList(<<Component(<<"B">>, PFloat(500)),
                                 Component(<<"C">>, PInt(0))>>)])

\* a non-empty components list of which no component is kept; the name
\* has a letter outside ASCII
Dropped ==
    Dict([name |-> PStr(<<"É","d">>),
          components |-> PList(<<Dict([servings |-> PInt(1)]),
                                 Component(<<>>, PInt(2)),
                                 Dict([name |-> PStr(<<"B">>)])>>)])

NoName == Dict([id |-> PStr(<<"x">>), components |-> PList(<<Component(<<"B">>, PInt(1))>>)])
EmptyName == Dict([name |-> PStr(<<>>), components |-> PList(<<Component(<<"B">>, PInt(1))>>)])
NoComponents == Dict([id |-> PStr(<<"y">>), name |-> PStr(<<"A","b">>)])
EmptyComponents == Dict([name |-> PStr(<<"A","b">>), components |-> PList(<<>>)])

Egg ==
    Dict([id |-> PStr(<<"f","1">>),
          name |-> PStr(<<"E","g","g">>),
          keywords |-> PList(<<PStr(<<"e","g","g">>), PStr(<<"o","v","o">>)>>),
          calories_per_serving |-> PInt(70)])
\* no name: the id is the identifier; 0.125 is a rounding tie
OnlyId == Dict([id |-> PStr(<<"f","2">>), calories_per_serving |-> PFloat(125)])
\* neither name nor id, no calories
Anonymous == Dict([keywords |-> PList(<<PStr(<<"k">>)>>)])
\* the name is present but empty
BlankName ==
    Dict([id |-> PStr(<<"f","4">>), name |-> PStr(<<>>),
          calories_per_serving |-> PFloat(2625)])
\* calories given as a string: the '.2f' format raises ValueError
BadCalories ==
    Dict([name |-> PStr(<<"Z","e","d">>),
          calories_per_serving |-> PStr(<<"7","0">>)])

(***************************************************************************)
(* The calls made on the converters                                        *)
(***************************************************************************)
Text(x) == PStr(Dumps(x))

\* json_data of add_composite_food_from_json: one record, a JSON string,
\* or a list of those
CompositeInputs ==
    { GheeRoti, Small, Dropped, NoName, EmptyName, NoComponents, EmptyComponents,
      PStr(<<"{">>), Text(Small), Text(NoName), Text(PList(<<Small, GheeRoti>>)),
      PList(<<>>),
      PList(<<Small>>),
      PList(<<Small, GheeRoti>>),
      PList(<<NoName, Small>>),
      PList(<<PStr(<<"n","o","p","e">>), Small>>),
      PList(<<Text(PList(<<Small>>)), Small>>),
      PList(<<Text(Small), EmptyComponents, Text(Dropped)>>) }

\* what is at the path json_file: nothing, or a file holding a text
Missing == [t |-> "missing"]
File(text) == [t |-> "file", s |-> text]

BasicInputs ==
    { Missing, File(<<"{">>),
      File(Dumps(Egg)), File(Dumps(BadCalories)),
      File(Dumps(PList(<<>>))),
      File(Dumps(PList(<<Egg, OnlyId>>))),
      File(Dumps(PList(<<Anonymous, BlankName>>))),
      File(Dumps(PList(<<Egg, BadCalories, OnlyId>>))),
      File(Dumps(PList(<<BadCalories, Egg>>))) }

\* the JSON texts among these, and what json.loads makes of each
InputTexts ==
    {x.s : x \in {y \in CompositeInputs : y.t = "str"}}
        \cup UNION {{y.l[i].s : i \in {j \in DOMAIN y.l : y.l[j].t = "str"}} :
                       y \in {z \in CompositeInputs : z.t = "list"}}
        \cup {f.s : f \in BasicInputs \ {Missing}}

Loaded == [text \in InputTexts |-> Parse(text)]

\* json.loads / json.load: a function of the text
JsonLoads(text) == IF text \in InputTexts THEN Loaded[text] ELSE Parse(text)

(***************************************************************************)
(* add_single_composite_food                                               *)
(***************************************************************************)
\* what a helper call did: it returned v or raised v, appended `out`
\* to the output file, and printed the message `msg`
Returned(v, out, msg) == [kind |-> "return", v |-> v, out |-> out, msg |-> msg]
Raised(exc) ==
    [kind |-> "raise", v |-> [t |-> "exception", x |-> exc], out |-> <<>>, msg |-> "none"]

\* Kept with a fault: the servings are not looked at
KeptByName(component) == Truthy(Get(component, "name", PStr(<<>>)))

\* lines 51-53: if name and servings
Kept(component) ==
    /\ Truthy(Get(component, "name", PStr(<<>>)))
    /\ Truthy(Get(component, "servings", PInt(0)))

\* MissingRequired with a fault: the components are not required
MissingName(food_name, components) == ~Truthy(food_name)

\* MissingRequired with a fault: the components are validated after the
\* filter of lines 50-54
MissingKept(food_name, components) ==
    \/ ~Truthy(food_name)
    \/ ~Truthy(components)
    \/ components.t = "list" /\ SelectSeq(components.l, Kept) = <<>>

\* line 40: if not food_name or not components
MissingRequired(food_name, components) == ~Truthy(food_name) \/ ~Truthy(components)

\* lines 45-46
SearchTermsStr(food_name) == Join(<<",">>, <<Lower(food_name), food_name>>)

\* lines 49-56
ComponentsStr(components) ==
    LET kept == SelectSeq(components, Kept)
    IN  Join(<<";">>, [i \in DOMAIN kept |->
                          Str(Get(kept[i], "name", PStr(<<>>))) \o <<":">>
                              \o Str(Get(kept[i], "servings", PInt(0)))])

\* line 59
Entry(food_name, components) ==
    food_name \o <<"|">> \o SearchTermsStr(food_name) \o <<"|">>
              \o ComponentsStr(components) \o <<"\n">>

\* lines 36-69, food_data being what line 28-33 left
AddParsed(food_data, io_ok) ==
    IF food_data.t # "dict" THEN Raised("AttributeError")
    ELSE
      LET food_name == Get(food_data, "name", PStr(<<>>))
          components == Get(food_data, "components", PList(<<>>))
      IN  IF MissingRequired(food_name, components)
            THEN Returned(PBool(FALSE), <<>>, "missing_fields")
          ELSE IF food_name.t # "str" THEN Raised("AttributeError")
          ELSE IF components.t \in {"int", "float", "bool"} THEN Raised("TypeError")
          ELSE IF components.t # "list" THEN Raised("AttributeError")
          ELSE IF \E i \in DOMAIN components.l : components.l[i].t # "dict"
            THEN Raised("AttributeError")
          ELSE IF io_ok
            THEN Returned(PBool(TRUE), Entry(food_name.s, components.l), "added")
          ELSE Returned(PBool(FALSE), <<>>, "write_error")

\* lines 29-33 once json.loads has returned or raised, then lines 36-69
AddLoaded(parsed, io_ok) ==
    IF parsed.ok THEN AddParsed(parsed.v, io_ok)
    ELSE Returned(PBool(FALSE), <<>>, "invalid_json")

\* add_single_composite_food(food_data, file_path); io_ok: the open and
\* the write of lines 63-64 succeed
AddSingleCompositeFood(food_data, io_ok) ==
    IF food_data.t = "str" THEN AddLoaded(JsonLoads(food_data.s), io_ok)
    ELSE AddParsed(food_data, io_ok)

(***************************************************************************)
(* process_food_item                                                       *)
(***************************************************************************)
\* Identifier with a fault: the id is preferred to the name
IdentifierIdFirst(food) ==
    Get(food, "id", Get(food, "name", PStr(<<"U","n","k","n","o","w","n">>)))

\* line 43
Identifier(food) == Get(food, "name", Get(food, "id", PStr(<<"U","n","k","n","o","w","n">>)))

\* what iterating a value yields (a str its characters, a dict its keys)
Elements(x) ==
    CASE x.t = "str" -> [i \in DOMAIN x.s |-> PStr(<<x.s[i]>>)]
      [] x.t = "list" -> x.l
      [] x.t = "dict" -> [i \in DOMAIN x.d |-> PStr(x.d[i].k)]

\* line 46: ",".join(...) accepts an iterable of str
Joinable(keywords) ==
    /\ keywords.t \in {"str", "list", "dict"}
    /\ \A i \in DOMAIN Elements(keywords) : Elements(keywords)[i].t = "str"

KeywordsStr(keywords) ==
    Join(<<",">>, [i \in DOMAIN Elements(keywords) |-> Elements(keywords)[i].s])

\* line 52: the '.2f' presentation
Calories(calories) ==
    IF calories.t = "bool" THEN Format2f(PInt(IF calories.b THEN 1 ELSE 0))
    ELSE Format2f(calories)

\* process_food_item(food, output_file): `out` is what it writes
ProcessFoodItem(food) ==
    IF food.t # "dict" THEN Raised("AttributeError")
    ELSE
      LET keywords == Get(food, "keywords", PList(<<>>))
          calories == Get(food, "calories_per_serving", PInt(0))
      IN  IF ~Joinable(keywords) THEN Raised("TypeError")
          ELSE IF calories.t = "str" THEN Raised("ValueError")
          ELSE IF calories.t \notin {"int", "float", "bool"} THEN Raised("TypeError")
          ELSE Returned(PNone,
                        Str(Identifier(food)) \o <<"|">> \o KeywordsStr(keywords)
                            \o <<"|">> \o Calories(calories) \o <<"\n">>,
                        "none")

(***************************************************************************)
(* State                                                                   *)
(***************************************************************************)
AddComposite == "add_composite_food_from_json"
Convert == "convert_json_to_basic_foods"

NoOutcome == [kind |-> "none", v |-> PNone]
Outcome(r) == [kind |-> r.kind, v |-> r.v]
ReturnNone == [kind |-> "return", v |-> PNone]
NoCall == [fn |-> "none", arg |-> PNone, out |-> <<>>, clean |-> FALSE]

Printed(r) == IF r.msg = "none" THEN <<>> ELSE <<r.msg>>

\* what is at the output path: a file that can be appended to, a path
\* whose directory does not exist (open raises FileNotFoundError), a path
\* that may not be opened (PermissionError, IsADirectoryError: an OSError
\* that is not FileNotFoundError), or a file that can be opened but cannot
\* grow (a size limit, a full disk: the write of the buffered text at the
\* close raises OSError)
OutputPaths == {"appendable", "no_directory", "unopenable", "cannot_grow"}

\* lines 62-64: the open, the write and the close of the helper succeed
Appendable == output_path = "appendable"

\* AppendTo with a fault: the file is opened with mode "w"
Overwrite(file, text) == text

\* what a file opened with mode "a" holds once text is written to it
AppendTo(file, text) == file \o text

\* the buffer of the file object open(path, "a") returns, in bytes
BufferSize == 8192

\* The close at the end of a with block writes the buffered text to the
\* file.  An open file is not affected by what becomes of its path; the
\* close fails when there is text to write and the file cannot grow.  A
\* character of Alphabet takes at most two bytes; a text that fills the
\* buffer would reach the file before the close.
Close(file, text) ==
    IF 2 * Len(text) >= BufferSize THEN Unsupported
    ELSE IF text # <<>> /\ output_path = "cannot_grow"
    THEN [ok |-> FALSE, file |-> file]
    ELSE [ok |-> TRUE, file |-> AppendTo(file, text)]

\* line 38: print(f"Error: {e}"), by the class of e
Error(exc) == "error: " \o exc

\* the output file of the current call, and what the call added to it
OutputFile == IF fn = Convert THEN basic_file ELSE comp_file
Appended == SubSeq(OutputFile, Len(file_before) + 1, Len(OutputFile))

\* the call ended and reported no failure
Clean ==
    /\ pc = "done"
    /\ IF fn = Convert THEN console = <<"success">>
       ELSE outcome = [kind |-> "return", v |-> PBool(TRUE)]

\* Importing add_composite_food runs line 168, which appends the line of
\* every record of sample_data to the default path.
SampleLines ==
    Concat([i \in DOMAIN SampleData |-> AddSingleCompositeFood(SampleData[i], TRUE).out])

\* The composite output path is the default one after the import, or a
\* fresh one.
Init ==
    /\ pc = "idle"
    /\ calls = 0
    /\ output_path = "appendable"
    /\ fn = "none"
    /\ arg = PNone
    /\ items = <<>>
    /\ idx = 0
    /\ success_count = 0
    /\ steps = <<>>
    /\ buffer = <<>>
    /\ outcome = NoOutcome
    /\ console = <<>>
    /\ comp_file \in {<<>>, SampleLines}
    /\ basic_file = <<>>
    /\ file_before = <<>>
    /\ prev = NoCall

\* a call can be made when no call is running
CanCall == pc \in {"idle", "done"} /\ calls < MaxCalls

Remember ==
    prev' = IF pc = "done"
            THEN [fn |-> fn, arg |-> arg, out |-> Appended, clean |-> Clean]
            ELSE prev

(***************************************************************************)
(* add_composite_food_from_json                                            *)
(***************************************************************************)
\* AllSucceeded with a fault: one success is enough
SomeSucceeded(count, n) == count > 0

\* line 21
AllSucceeded(count, n) == count = n

\* line 24: the call ends as the helper did (r)
ReturnSingle(r) ==
    /\ pc' = "done"
    /\ items' = <<>>
    /\ steps' = <<r>>
    /\ outcome' = Outcome(r)
    /\ console' = Printed(r)
    /\ comp_file' = AppendTo(comp_file, r.out)

\* lines 17-18 once the helper has ended (r)
Counted(r) ==
    /\ steps' = Append(steps, r)
    /\ idx' = idx + 1
    /\ comp_file' = AppendTo(comp_file, r.out)
    /\ console' = console \o Printed(r)
    /\ IF r.kind = "raise"
       THEN /\ pc' = "done"
            /\ outcome' = Outcome(r)
            /\ success_count' = success_count
       ELSE /\ pc' = pc
            /\ outcome' = outcome
            /\ success_count' = IF Truthy(r.v) THEN success_count + 1
                                ELSE success_count

\* lines 13-24: the call, up to the first iteration of the loop of line 16
\* (a list) or to its return (anything else)
AddCompositeFoodFromJson(json_data) ==
    /\ CanCall
    /\ Remember
    /\ calls' = calls + 1
    /\ fn' = AddComposite
    /\ arg' = json_data
    /\ file_before' = comp_file
    /\ idx' = 0
    /\ success_count' = 0
    /\ IF json_data.t = "list"
       THEN /\ pc' = "comp_loop"
            /\ items' = json_data.l
            /\ steps' = <<>>
            /\ outcome' = NoOutcome
            /\ console' = <<>>
            /\ comp_file' = comp_file
       ELSE ReturnSingle(AddSingleCompositeFood(json_data, Appendable))
    /\ UNCHANGED <<output_path, buffer, basic_file>>

\* lines 16-18: one iteration; an exception of the helper leaves the call
CompositeLoopStep ==
    /\ pc = "comp_loop"
    /\ idx < Len(items)
    /\ Counted(AddSingleCompositeFood(items[idx + 1], Appendable))
    /\ UNCHANGED <<calls, output_path, fn, arg, items, buffer, basic_file, file_before, prev>>

\* lines 20-21
CompositeLoopExit ==
    /\ pc = "comp_loop"
    /\ idx = Len(items)
    /\ pc' = "done"
    /\ console' = Append(console, "summary")
    /\ outcome' = [kind |-> "return", v |-> PBool(AllSucceeded(success_count, Len(items)))]
    /\ UNCHANGED <<calls, output_path, fn, arg, items, idx, success_count, steps, buffer,
                   comp_file, basic_file, file_before, prev>>

(***************************************************************************)
(* convert_json_to_basic_foods                                             *)
(***************************************************************************)
\* a handler of lines 33-38 prints and the call falls off its end
Handled(msg) ==
    /\ pc' = "done"
    /\ items' = <<>>
    /\ steps' = <<>>
    /\ console' = <<msg>>
    /\ outcome' = ReturnNone
    /\ basic_file' = basic_file

\* lines 27-38: a single food (r is what process_food_item did) and the
\* close of the output file (closed)
ConvertedSingle(r, closed) ==
    /\ pc' = "done"
    /\ items' = <<>>
    /\ steps' = <<r>>
    /\ console' = IF ~closed.ok THEN <<Error("OSError")>>
                  ELSE IF r.kind = "raise" THEN <<Error(r.v.x)>>
                  ELSE <<"success">>
    /\ outcome' = ReturnNone
    /\ basic_file' = closed.file

\* lines 17-18: open(json_file, 'r') and json.load
Load(json_file) ==
    IF json_file.t = "file" THEN JsonLoads(json_file.s) ELSE [ok |-> FALSE, v |-> PNone]

\* lines 17-38 once the input is read (food_data), up to the first
\* iteration of the loop of line 25 or to the return.  The handler of
\* FileNotFoundError (line 33) also takes the one open(output_file, 'a')
\* raises when the directory of the output path does not exist.  An
\* exception of the close replaces the one that left the with block.
Converted(json_file, food_data) ==
    IF json_file.t = "missing" THEN Handled("not_found")
    ELSE IF ~food_data.ok THEN Handled("invalid_json")
    ELSE IF output_path = "no_directory" THEN Handled("not_found")
    ELSE IF output_path = "unopenable" THEN Handled(Error("OSError"))
    ELSE IF food_data.v.t = "list"
      THEN /\ pc' = "conv_loop"
           /\ items' = food_data.v.l
           /\ steps' = <<>>
           /\ console' = <<>>
           /\ outcome' = NoOutcome
           /\ basic_file' = basic_file
    ELSE ConvertedSingle(ProcessFoodItem(food_data.v),
                         Close(basic_file, ProcessFoodItem(food_data.v).out))

\* lines 15-38: the call.  Every exception ends in a handler of lines
\* 33-38.
ConvertJsonToBasicFoods(json_file) ==
    /\ CanCall
    /\ Remember
    /\ calls' = calls + 1
    /\ fn' = Convert
    /\ arg' = json_file
    /\ file_before' = basic_file
    /\ idx' = 0
    /\ success_count' = 0
    /\ buffer' = <<>>
    /\ Converted(json_file, Load(json_file))
    /\ UNCHANGED <<output_path, comp_file>>

\* lines 25-26: one iteration; an exception leaves the with block, which
\* closes the file (the text written so far reaches it, if the close
\* succeeds), and is handled
ConvertLoopStep ==
    /\ pc = "conv_loop"
    /\ idx < Len(items)
    /\ LET r == ProcessFoodItem(items[idx + 1])
           closed == Close(basic_file, buffer)
       IN  /\ steps' = Append(steps, r)
           /\ idx' = idx + 1
           /\ IF r.kind = "raise"
              THEN /\ pc' = "done"
                   /\ basic_file' = closed.file
                   /\ buffer' = <<>>
                   /\ console' = IF closed.ok THEN <<Error(r.v.x)>>
                                  ELSE <<Error("OSError")>>
                   /\ outcome' = ReturnNone
              ELSE /\ pc' = pc
                   /\ basic_file' = basic_file
                   /\ buffer' = buffer \o r.out
                   /\ console' = console
                   /\ outcome' = outcome
    /\ UNCHANGED <<calls, output_path, fn, arg, items, success_count, comp_file,
                   file_before, prev>>

\* the with block ends: the file is closed, then line 31, or the handler
\* of lines 37-38 when the close fails
ConvertLoopExit ==
    /\ pc = "conv_loop"
    /\ idx = Len(items)
    /\ LET closed == Close(basic_file, buffer)
       IN  /\ basic_file' = closed.file
           /\ console' = IF closed.ok THEN <<"success">> ELSE <<Error("OSError")>>
    /\ pc' = "done"
    /\ buffer' = <<>>
    /\ outcome' = ReturnNone
    /\ UNCHANGED <<calls, output_path, fn, arg, items, idx, success_count, steps,
                   comp_file, file_before, prev>>

(***************************************************************************)
(* The environment: what is at the output path changes (a directory is     *)
(* moved away or back, permissions change, the disk fills or is freed)     *)
(***************************************************************************)
SetOutputPath(state) ==
    /\ state # output_path
    /\ output_path' = state
    /\ UNCHANGED <<pc, calls, fn, arg, items, idx, success_count, steps, buffer,
                   outcome, console, comp_file, basic_file, file_before, prev>>

Next ==
    \/ \E json_data \in CompositeInputs : AddCompositeFoodFromJson(json_data)
    \/ CompositeLoopStep
    \/ CompositeLoopExit
    \/ \E json_file \in BasicInputs : ConvertJsonToBasicFoods(json_file)
    \/ ConvertLoopStep
    \/ ConvertLoopExit
    \/ \E state \in OutputPaths : SetOutputPath(state)

Spec == Init /\ [][Next]_vars

(***************************************************************************)
(* Properties.  What the properties say of a record is written here from   *)
(* the record's fields, not with the operators of the helpers above.       *)
(***************************************************************************)
Done == pc = "done"
True == PBool(TRUE)
False == PBool(FALSE)

IsPrefix(s, t) == Len(s) <= Len(t) /\ SubSeq(t, 1, Len(s)) = s

\* the number of lines of a text
CountLines(text) == Cardinality({i \in DOMAIN text : text[i] = "\n"})

\* the i-th element handed to add_single_composite_food by the current call
ElementAt(i) == IF arg.t = "list" THEN arg.l[i] ELSE arg

\* the record an element stands for: itself, or what its JSON text encodes
RecordOf(x) == IF x.t = "str" THEN JsonLoads(x.s).v ELSE x

\* the steps of the current call on which the helper returned True
Successes == {i \in DOMAIN steps : steps[i].kind = "return" /\ steps[i].v = True}

Has(rec, key) == HasKey(rec, KeyChars(key))

\* rec[key]
Field(rec, key) == Get(rec, key, PNone)

\* name absent or empty, or components absent or empty
LacksRequired(rec) ==
    /\ rec.t = "dict"
    /\ \/ ~Has(rec, "name")
       \/ Field(rec, "name") = PStr(<<>>)
       \/ ~Has(rec, "components")
       \/ Field(rec, "components") = PList(<<>>)

\* C1: a call on a list of N elements, K of which the helper returned True
\* for, returns True iff K = N, and the output file has grown by K lines.
C1_ListResult ==
    (Done /\ fn = AddComposite /\ arg.t = "list") =>
        LET N == Len(arg.l)
            K == Cardinality(Successes)
        IN  /\ (outcome = [kind |-> "return", v |-> True]) <=> (K = N)
            /\ outcome.kind = "return" => outcome.v \in {True, False}
            /\ IsPrefix(file_before, comp_file)
            /\ CountLines(comp_file) = CountLines(file_before) + K

\* a list of two of which one succeeded: False, one more line
C1_Witness ==
    /\ Done /\ fn = AddComposite
    /\ arg = PList(<<NoName, Small>>)
    /\ Cardinality(Successes) = 1
    /\ outcome = [kind |-> "return", v |-> False]
    /\ CountLines(comp_file) = CountLines(file_before) + 1
    /\ file_before # <<>>

\* C2: a record whose name is absent or empty, or whose components are
\* absent or empty, makes the helper return False (the validation message,
\* not the message of the write) without adding anything to the file.
C2_RejectedUntouched ==
    fn = AddComposite =>
        /\ \A i \in DOMAIN steps :
              LacksRequired(RecordOf(ElementAt(i))) =>
                  /\ steps[i].kind = "return"
                  /\ steps[i].v = False
                  /\ steps[i].out = <<>>
                  /\ steps[i].msg = "missing_fields"
        /\ (Done /\ arg.t # "list" /\ LacksRequired(RecordOf(arg))) =>
              /\ comp_file = file_before
              /\ outcome = [kind |-> "return", v |-> False]

\* a record without components was refused while the file held a line
C2_Witness ==
    /\ Done /\ fn = AddComposite
    /\ arg = NoComponents
    /\ steps = <<Returned(False, <<>>, "missing_fields")>>
    /\ comp_file = file_before
    /\ comp_file # <<>>

\* C3: on a list every element is attempted, in order, whatever became of
\* the elements before it, and no exception leaves the call.
C3_EveryElementAttempted ==
    (Done /\ fn = AddComposite /\ arg.t = "list") =>
        /\ outcome.kind = "return"
        /\ Len(steps) = Len(arg.l)

\* C6: a JSON string that encodes an array of N records is handled as the
\* list of those records: the helper is run on each of the N, and the call
\* returns a boolean.
C6_StringArrayAsList ==
    (Done /\ fn = AddComposite /\ arg.t = "str" /\ RecordOf(arg).t = "list") =>
        /\ outcome.kind = "return"
        /\ Len(steps) = Len(RecordOf(arg).l)

\* the parts of the third field: 'name:servings' of the components whose
\* name is not empty and whose servings are not zero, in their order
RECURSIVE PartsOf(_)
PartsOf(components) ==
    IF components = <<>> THEN <<>>
    ELSE LET c == Head(components)
             named == Has(c, "name") /\ Field(c, "name") # PStr(<<>>)
             served == Has(c, "servings") /\ Field(c, "servings") \notin {PInt(0), PFloat(0)}
         IN  (IF named /\ served
              THEN <<Str(Field(c, "name")) \o <<":">> \o Str(Field(c, "servings"))>>
              ELSE <<>>) \o PartsOf(Tail(components))

\* name|lowercase(name),name|parts
CompositeLine(rec) ==
    LET name == Field(rec, "name").s
    IN  Concat(<<name, <<"|">>, Lower(name), <<",">>, name, <<"|">>,
                 Join(<<";">>, PartsOf(Field(rec, "components").l)), <<"\n">>>>)

GheeRotiLine ==
    <<"G","h","e","e"," ","R","o","t","i","|",
      "g","h","e","e"," ","r","o","t","i",",","G","h","e","e"," ","R","o","t","i","|",
      "R","o","t","i",":","1",";","G","h","e","e",":","1","\n">>

\* C7: the line appended for an accepted record is
\* name|lowercase(name),name|parts; 'Ghee Roti' of Roti:1 and Ghee:1 gives
\* 'Ghee Roti|ghee roti,Ghee Roti|Roti:1;Ghee:1'.
C7_CompositeLineFormat ==
    fn = AddComposite =>
        \A i \in Successes :
            LET rec == RecordOf(ElementAt(i))
            IN  /\ steps[i].out = CompositeLine(rec)
                /\ rec = GheeRoti => steps[i].out = GheeRotiLine

\* a component with zero servings was left out of an appended line, and
\* the Ghee Roti line was appended after it
C7_Witness ==
    /\ Done /\ fn = AddComposite
    /\ arg = PList(<<Small, GheeRoti>>)
    /\ Successes = {1, 2}
    /\ steps[1].out = <<"A","b","|","a","b",",","A","b","|","B",":","0",".","5","\n">>
    /\ Appended = steps[1].out \o GheeRotiLine

\* a named record whose components list is not empty but of which no
\* component is kept
AllDropped(rec) ==
    /\ rec.t = "dict"
    /\ ~LacksRequired(rec)
    /\ PartsOf(Field(rec, "components").l) = <<>>

\* C10: the validation looks at the components as given: a record with a
\* name and components that are all dropped is not refused, and the line
\* appended for it has an empty third field.
C10_EmptyThirdField ==
    fn = AddComposite =>
        \A i \in DOMAIN steps :
            LET rec == RecordOf(ElementAt(i))
            IN  AllDropped(rec) =>
                    \/ steps[i] = Returned(True,
                                           Concat(<<Field(rec, "name").s, <<"|">>,
                                                    Lower(Field(rec, "name").s), <<",">>,
                                                    Field(rec, "name").s, <<"|", "\n">>>>),
                                           "added")
                    \/ steps[i] = Returned(False, <<>>, "write_error")

C10_Witness ==
    /\ Done /\ fn = AddComposite
    /\ arg = Dropped
    /\ outcome = [kind |-> "return", v |-> True]
    /\ Appended = <<"É","d","|","é","d",",","É","d","|","\n">>

\* the i-th record handed to process_food_item by the current call
BasicAt(i) == IF items # <<>> THEN items[i] ELSE JsonLoads(arg.s).v

\* text is a decimal numeral with exactly two digits after the point, and
\* it is within half a hundredth of thousandths/1000
TwoDecimalsOf(text, thousandths) ==
    LET neg == text # <<>> /\ text[1] = "-"
        body == IF neg THEN Tail(text) ELSE text
        n == Len(body)
    IN  /\ n >= 4
        /\ body[n - 2] = "."
        /\ \A i \in (1..n) \ {n - 2} : IsDigit(body[i])
        /\ LET h == 100 * StrToNat(SubSeq(body, 1, n - 3)) + StrToNat(SubSeq(body, n - 1, n))
               hundredths == IF neg THEN -h ELSE h
           IN  Abs(10 * hundredths - thousandths) <= 5

\* calories_per_serving in thousandths, 0 when absent
CaloriesOf(rec) ==
    IF ~Has(rec, "calories_per_serving") THEN 0
    ELSE IF Field(rec, "calories_per_serving").t = "int" THEN 1000 * Field(rec, "calories_per_serving").n
    ELSE Field(rec, "calories_per_serving").e

\* the name if the field is present, else the id if present, else Unknown
IdentifierOf(rec) ==
    IF Has(rec, "name") THEN Field(rec, "name").s
    ELSE IF Has(rec, "id") THEN Field(rec, "id").s
    ELSE <<"U","n","k","n","o","w","n">>

RECURSIVE CommaJoined(_)
CommaJoined(words) ==
    IF words = <<>> THEN <<>>
    ELSE IF Len(words) = 1 THEN words[1].s
    ELSE words[1].s \o <<",">> \o CommaJoined(Tail(words))

KeywordsOf(rec) == IF Has(rec, "keywords") THEN CommaJoined(Field(rec, "keywords").l) ELSE <<>>

\* what the steps of the current call wrote to the file object, in order
Written == Concat([i \in DOMAIN steps |-> steps[i].out])

\* the output file could not be opened, or its close failed
OutputFailed == console = <<Error("OSError")>>

\* C8: for every record process_food_item gets through, one line
\* identifier|keywords|calories is written, the lines in the order of the
\* records; calories are 0 when absent and have exactly two decimals.  The
\* lines written are what the call appends to the file, unless the file
\* cannot take them, when the call reports the error and appends nothing.
C8_BasicLineFormat ==
    fn = Convert =>
        /\ \A i \in DOMAIN steps :
              steps[i].kind = "return" =>
                  LET rec == BasicAt(i)
                      line == steps[i].out
                      head == IdentifierOf(rec) \o <<"|">> \o KeywordsOf(rec) \o <<"|">>
                      number == SubSeq(line, Len(head) + 1, Len(line) - 1)
                  IN  /\ IsPrefix(head, line)
                      /\ line[Len(line)] = "\n"
                      /\ CountLines(line) = 1
                      /\ TwoDecimalsOf(number, CaloriesOf(rec))
                      /\ ~Has(rec, "calories_per_serving") => number = <<"0",".","0","0">>
                      /\ rec = Egg => number = <<"7","0",".","0","0">>
        /\ buffer = IF Done THEN <<>> ELSE Written
        /\ Done => Appended = IF OutputFailed THEN <<>> ELSE Written

\* a record with neither name nor id and one whose name is empty
C8_Witness ==
    /\ Done /\ fn = Convert
    /\ arg = File(Dumps(PList(<<Anonymous, BlankName>>)))
    /\ console = <<"success">>
    /\ file_before # <<>>
    /\ Appended = <<"U","n","k","n","o","w","n","|","k","|","0",".","0","0","\n",
                    "|","|","2",".","6","2","\n">>

\* C4: in an array given to the basic-food converter, a record that cannot
\* be formatted does not keep the other records from being written: the
\* call appends the line of every well-formed record of the array (the
\* output file being one that takes the lines).
C4_BadRecordSkipped ==
    (Done /\ fn = Convert /\ items # <<>> /\ ~OutputFailed) =>
        Appended = Concat([i \in DOMAIN items |-> ProcessFoodItem(items[i]).out])

\* the call of the basic-food converter ended in one of its handlers
ConvertFailed == Done /\ fn = Convert /\ console # <<"success">>

\* C5: a failed call of the basic-food converter surfaces to its caller:
\* what the caller gets back (a value or an exception) is not what a
\* successful call gives, which returns None.
C5_FailureSurfaces == ConvertFailed => outcome # ReturnNone

\* the last two calls were the same call, and neither reported a failure
RepeatedClean == Clean /\ prev.clean /\ prev.fn = fn /\ prev.arg = arg

\* C9: no step removes or changes what a file holds: the old content is a
\* prefix of the new; and a call repeated with the same input appends the
\* lines of the first call a second time.
C9_AppendOnly ==
    [][ /\ IsPrefix(comp_file, comp_file')
        /\ IsPrefix(basic_file, basic_file')
        /\ RepeatedClean' =>
              /\ Appended' = prev'.out
              /\ IsPrefix(file_before', OutputFile')
              /\ SubSeq(file_before', Len(file_before') - Len(prev'.out) + 1,
                        Len(file_before')) = prev'.out ]_vars

\* the same two-record list was added twice, and the file ends with its
\* two lines twice
C9_Witness ==
    /\ RepeatedClean
    /\ arg = PList(<<Small, GheeRoti>>)
    /\ prev.out = CompositeLine(Small) \o GheeRotiLine
    /\ comp_file = prev.out \o prev.out


====
